---- MODULE Spec2Model ----
(***************************************************************************)
(* Model of the dialogue orchestration engine of backend/booking_graph.py: *)
(* the BookingGraphState channels, the six graph nodes, the three routing  *)
(* functions, the graph runtime that executes them step by step, and       *)
(* invoke_booking_graph, which starts one turn per user message.           *)
(*                                                                         *)
(* Python None is the string NONE; an Optional[...Schema] is the empty     *)
(* sequence (None) or a one-element sequence holding the record.  The      *)
(* Language Model Gateway (chat_llm) is an oracle: every call draws its    *)
(* raw output from a small set that includes failure (GatewayError).       *)
(*                                                                         *)
(* No node appends an AIMessage to conversation_history, so during a run   *)
(* its last element is always the HumanMessage invoke_booking_graph put    *)
(* there: user_input stands for history[-1].content, and the branch of     *)
(* classify_intent_node for a history without a human message is never     *)
(* taken.                                                                  *)
(***************************************************************************)
EXTENDS Naturals, Sequences, FiniteSets, TLC

VARIABLES
    state,            \* the checkpointed BookingGraphState of the session
    user_input,       \* content of the last HumanMessage (the turn's user_text)
    pc,               \* the node the graph runs next, or "idle" / "raised"
    steps,            \* graph steps executed in the current turn
    confirmation_raw, \* raw Gateway output of the last confirmation call
    summary_turn,     \* interaction_count in which confirmation_summary was produced
    tool_calls,       \* tool invocations made during the current turn
    ai_response_to_user, \* invoke_booking_graph's local: the reply collected so far
    replay,           \* the current turn repeats the user_text of a turn that dispatched
    checkpoints,      \* the checkpointer: thread_id -> last checkpoint written for it
    calls             \* concurrent invoke_booking_graph calls: locals and position of each

vars == <<state, user_input, pc, steps, confirmation_raw, summary_turn, tool_calls,
          ai_response_to_user, replay, checkpoints, calls>>

\* The single-session model (Spec) runs one call at a time on one thread and
\* keeps that thread's checkpoint in `state`; the model of the checkpointer
\* and of concurrent calls (SpecSessions) uses these two variables instead.
dialogueVars == <<state, user_input, pc, steps, confirmation_raw, summary_turn, tool_calls,
                  ai_response_to_user, replay>>

sessionVars == <<checkpoints, calls>>

-----------------------------------------------------------------------------
(* Bounds and program constants *)

MaxInteractions == 3

RecursionLimit == 25

NONE == "<None>"

GatewayError == "<raise>"

NoCall == "<no call>"

-----------------------------------------------------------------------------
(* Strings: str.strip(), str.lower() and the `kw in text` substring test   *)

Strip(s) ==
    CASE s = " yes\n" -> "yes"
      [] s = " None " -> "None"
      [] OTHER -> s

Lower(s) ==
    CASE s = "Yes" -> "yes"
      [] s = "None" -> "none"
      [] s = "NONE" -> "none"
      [] s = "High" -> "high"
      [] s = "Ticket" -> "ticket"
      [] s = "Intent: APPOINTMENT" -> "intent: appointment"
      [] s = "Cancel that" -> "cancel that"
      [] OTHER -> s

\* kw in s, for the lower-cased texts that occur
Contains(s, kw) ==
    CASE s = "appointment" -> kw = "appointment"
      [] s = "intent: appointment" -> kw = "appointment"
      [] s = "ticket" -> kw = "ticket"
      [] s = "cancel that" -> kw = "cancel"
      [] OTHER -> FALSE

Truthy(s) == s # NONE /\ s # ""

-----------------------------------------------------------------------------
(* Inputs and Gateway outputs *)

UserTexts == {"", "next monday", "Cancel that"}

IntentOutputs == {"appointment", "Ticket", "Intent: APPOINTMENT", "general", "", GatewayError}

FieldOutputs == {"val", " None ", "NONE", "", GatewayError}

PriorityOutputs == {"High", "low", "medium", "urgent", "None", "", GatewayError}

ConfirmationOutputs == {"yes", "Yes", " yes\n", "no", "maybe", "", GatewayError}

QuestionOutputs == {"ok", "", GatewayError}

ToolOutcomes == {"ok", "raise"}

\* What get_rag_chain() gives (a chain, None, an exception) and whether the
\* retrieval chain and the plain completion answer or raise
ChatOutcomes ==
    {[rag_chain |-> a, rag |-> b, llm |-> c] :
        a \in {"chain", "none", "raise"}, b \in {"ok", "raise"}, c \in {"ok", "raise"}}

IntentKeywords == {"appointment", "ticket", "book", "schedule", "issue", "problem", "cancel", "stop"}

-----------------------------------------------------------------------------
(* Slot schemas *)

AppointmentSchema(s, d, t, x) == <<[service_type |-> s, date |-> d, time |-> t, details |-> x]>>

TicketSchema(i, d, p) == <<[issue_type |-> i, description |-> d, priority |-> p]>>

IsSchema(x) == x # <<>>

default_appt_flags ==
    [appointment_slot_service_type_asked |-> FALSE, appointment_slot_date_asked |-> FALSE,
     appointment_slot_time_asked |-> FALSE, appointment_slot_details_asked |-> FALSE]

default_ticket_flags ==
    [ticket_slot_issue_type_asked |-> FALSE, ticket_slot_description_asked |-> FALSE,
     ticket_slot_priority_asked |-> FALSE]

\* dict.update / {**a, **b}: b's keys override a's
Update(a, b) == [k \in DOMAIN a |-> IF k \in DOMAIN b THEN b[k] ELSE a[k]]

\* state.get(...) on a thread with no checkpoint: every key absent
InitialState ==
    [user_request_type |-> NONE,
     appointment_details |-> <<>>,
     appointment_slot_service_type_asked |-> FALSE,
     appointment_slot_date_asked |-> FALSE,
     appointment_slot_time_asked |-> FALSE,
     appointment_slot_details_asked |-> FALSE,
     ticket_details |-> <<>>,
     ticket_slot_issue_type_asked |-> FALSE,
     ticket_slot_description_asked |-> FALSE,
     ticket_slot_priority_asked |-> FALSE,
     confirmation_summary |-> NONE,
     final_tool_response |-> NONE,
     interaction_count |-> 0,
     current_ai_response |-> NONE]

-----------------------------------------------------------------------------
(* Gateway helpers *)

\* Faulty variant of extract_info_with_llm: an unparseable confirmation counts as consent
extract_info_with_llm_fail_open(field_name, user_message, out) ==
    IF user_message = "" THEN NONE
    ELSE IF out = GatewayError THEN NONE
    ELSE LET extracted == Strip(out) IN
         IF field_name = "confirmation"
         THEN IF Lower(extracted) = "no" THEN "no" ELSE "yes"
         ELSE IF Lower(extracted) # "none" THEN extracted ELSE NONE

extract_info_with_llm(field_name, user_message, out) ==
    IF user_message = "" THEN NONE
    ELSE IF out = GatewayError THEN NONE
    ELSE LET extracted == Strip(out) IN
         IF field_name = "confirmation"
         THEN IF Lower(extracted) \in {"yes", "no"} THEN Lower(extracted) ELSE "no"
         ELSE IF Lower(extracted) # "none" THEN extracted ELSE NONE

generate_question_with_llm(target_field, out) ==
    IF out = GatewayError
    THEN CASE target_field = "service_type" -> "What type of service are you interested in?"
           [] target_field = "date" -> "What date would you like?"
           [] OTHER -> "Could you provide more information?"
    ELSE IF out = "" THEN ""
    ELSE CASE target_field = "service_type" -> "ask service_type"
           [] target_field = "date" -> "ask date"
           [] target_field = "time" -> "ask time"
           [] target_field = "details" -> "ask details"
           [] target_field = "issue_type" -> "ask issue_type"
           [] target_field = "description" -> "ask description"
           [] target_field = "priority" -> "ask priority"

-----------------------------------------------------------------------------
(* Nodes.  Each returns the node's output dict {**state, ...}, which the   *)
(* runtime writes back to the channels.                                    *)

\* Faulty variant of determine_intent: no sticky intent
determine_intent_not_sticky(current_intent, user_input_content, raw_out) ==
    LET raw_llm_intent == Lower(Strip(raw_out)) IN
    IF Contains(raw_llm_intent, "appointment") THEN "appointment"
    ELSE IF Contains(raw_llm_intent, "ticket") THEN "ticket"
    ELSE "general"

determine_intent(current_intent, user_input_content, raw_out) ==
    LET raw_llm_intent == Lower(Strip(raw_out)) IN
    IF Contains(raw_llm_intent, "appointment") THEN "appointment"
    ELSE IF Contains(raw_llm_intent, "ticket") THEN "ticket"
    ELSE IF current_intent \in {"appointment", "ticket"} /\ user_input_content # ""
         THEN IF ~ \E kw \in IntentKeywords : Contains(Lower(user_input_content), kw)
              THEN current_intent
              ELSE "general"
         ELSE "general"

\* Faulty variant of with_determined_intent: the summary and the tool response
\* of the previous turn are kept while the intent stays the same
with_determined_intent_keeps_summary(st, determined_intent) ==
    IF determined_intent = st.user_request_type
    THEN Update(st, [current_ai_response |-> NONE])
    ELSE Update(st, [user_request_type |-> determined_intent,
                     current_ai_response |-> NONE,
                     confirmation_summary |-> NONE,
                     final_tool_response |-> NONE])

\* updated_state of classify_intent_node before the structs are dealt with
with_determined_intent(st, determined_intent) ==
    Update(st, [user_request_type |-> determined_intent,
                current_ai_response |-> NONE,
                confirmation_summary |-> NONE,
                final_tool_response |-> NONE])

\* Faulty variant of classify_intent_node: an intent switch keeps the abandoned struct
classify_intent_node_keeps_abandoned(st, user_input_content, raw_out) ==
    LET current_intent == st.user_request_type
        determined_intent == determine_intent(current_intent, user_input_content, raw_out)
        updated_state == with_determined_intent(st, determined_intent)
    IN
    IF determined_intent = "appointment"
    THEN IF current_intent # "appointment" \/ ~IsSchema(st.appointment_details)
         THEN Update(Update(updated_state, default_appt_flags),
                     [appointment_details |-> AppointmentSchema("", "", "", NONE)])
         ELSE updated_state
    ELSE IF determined_intent = "ticket"
    THEN IF current_intent # "ticket" \/ ~IsSchema(st.ticket_details)
         THEN Update(Update(updated_state, default_ticket_flags),
                     [ticket_details |-> TicketSchema("", "", "medium")])
         ELSE updated_state
    ELSE IF current_intent = "appointment"
         THEN Update(Update(updated_state, default_appt_flags), [appointment_details |-> <<>>])
         ELSE IF current_intent = "ticket"
         THEN Update(Update(updated_state, default_ticket_flags), [ticket_details |-> <<>>])
         ELSE updated_state

classify_intent_node(st, user_input_content, raw_out) ==
    LET current_intent == st.user_request_type
        appt_details == st.appointment_details
        ticket_details == st.ticket_details
        determined_intent == determine_intent(current_intent, user_input_content, raw_out)
        updated_state == with_determined_intent(st, determined_intent)
    IN
    IF determined_intent = "appointment"
    THEN IF current_intent # "appointment" \/ ~IsSchema(appt_details)
         THEN Update(Update(updated_state, default_appt_flags),
                     [appointment_details |-> AppointmentSchema("", "", "", NONE),
                      ticket_details |-> <<>>])
         ELSE updated_state
    ELSE IF determined_intent = "ticket"
    THEN IF current_intent # "ticket" \/ ~IsSchema(ticket_details)
         THEN Update(Update(updated_state, default_ticket_flags),
                     [ticket_details |-> TicketSchema("", "", "medium"),
                      appointment_details |-> <<>>])
         ELSE updated_state
    ELSE IF current_intent = "appointment"
         THEN Update(Update(updated_state, default_appt_flags), [appointment_details |-> <<>>])
         ELSE IF current_intent = "ticket"
         THEN Update(Update(updated_state, default_ticket_flags), [ticket_details |-> <<>>])
         ELSE updated_state

\* Faulty variant of collect_required: a successful extraction leaves the asked flag set
collect_required_keeps_flag(st, details_key, current_details, field, flag, last_user_message, ex_out, q_out) ==
    IF ~st[flag]
    THEN Update(st, (details_key :> <<current_details>>) @@ (flag :> TRUE) @@
                    ("current_ai_response" :> generate_question_with_llm(field, q_out)))
    ELSE LET extracted == extract_info_with_llm(field, last_user_message, ex_out) IN
         Update(st, (details_key :> <<IF Truthy(extracted)
                                      THEN [current_details EXCEPT ![field] = extracted]
                                      ELSE current_details>>) @@
                    ("current_ai_response" :> IF Truthy(extracted) THEN NONE
                                              ELSE generate_question_with_llm(field, q_out)))

\* Faulty variant of collect_required: a failed extraction starts the struct over
collect_required_starts_over(st, details_key, current_details, field, flag, last_user_message, ex_out, q_out) ==
    IF ~st[flag]
    THEN Update(st, (details_key :> <<current_details>>) @@ (flag :> TRUE) @@
                    ("current_ai_response" :> generate_question_with_llm(field, q_out)))
    ELSE LET extracted == extract_info_with_llm(field, last_user_message, ex_out) IN
         Update(st, (details_key :> <<IF Truthy(extracted)
                                      THEN [current_details EXCEPT ![field] = extracted]
                                      ELSE [f \in DOMAIN current_details |->
                                               IF f \in {"priority", "details"}
                                               THEN current_details[f] ELSE ""]>>) @@
                    (flag :> FALSE) @@
                    ("current_ai_response" :> IF Truthy(extracted) THEN NONE
                                              ELSE generate_question_with_llm(field, q_out)))

\* One required appointment/ticket field: ask it, or extract it from the last user message
collect_required(st, details_key, current_details, field, flag, last_user_message, ex_out, q_out) ==
    IF ~st[flag]
    THEN Update(st, (details_key :> <<current_details>>) @@ (flag :> TRUE) @@
                    ("current_ai_response" :> generate_question_with_llm(field, q_out)))
    ELSE LET extracted == extract_info_with_llm(field, last_user_message, ex_out) IN
         Update(st, (details_key :> <<IF Truthy(extracted)
                                      THEN [current_details EXCEPT ![field] = extracted]
                                      ELSE current_details>>) @@
                    (flag :> FALSE) @@
                    ("current_ai_response" :> IF Truthy(extracted) THEN NONE
                                              ELSE generate_question_with_llm(field, q_out)))

\* Faulty variant of collect_optional_details: details is treated like a
\* required field, a reply without details leaves it null and asks again
collect_optional_details_blocking(st, current_details, last_user_message, ex_out, q_out) ==
    collect_required(st, "appointment_details", current_details, "details",
                     "appointment_slot_details_asked", last_user_message, ex_out, q_out)

\* The optional details field of an appointment: ask it, or take what the last
\* user message gives, 'N/A' when it gives nothing
collect_optional_details(st, current_details, last_user_message, ex_out, q_out) ==
    IF ~st.appointment_slot_details_asked
    THEN Update(st, [current_ai_response |-> generate_question_with_llm("details", q_out),
                     appointment_slot_details_asked |-> TRUE])
    ELSE LET extracted == extract_info_with_llm("details", last_user_message, ex_out) IN
         Update(st, [appointment_details |->
                         <<[current_details EXCEPT
                               !.details = IF Truthy(extracted) THEN extracted ELSE "N/A"]>>,
                     appointment_slot_details_asked |-> FALSE,
                     current_ai_response |-> NONE])

\* Faulty variant of collect_appointment_details_node: date is handled before service_type
collect_appointment_details_node_date_first(st, last_user_message, ex_out, q_out) ==
    IF ~IsSchema(st.appointment_details)
    THEN IF st.user_request_type = "appointment"
         THEN Update(st, [appointment_details |-> AppointmentSchema("", "", "", NONE),
                          appointment_slot_service_type_asked |-> TRUE,
                          appointment_slot_date_asked |-> FALSE,
                          appointment_slot_time_asked |-> FALSE,
                          appointment_slot_details_asked |-> FALSE,
                          current_ai_response |-> generate_question_with_llm("service_type", q_out)])
         ELSE Update(st, [current_ai_response |-> "Error processing appointment.",
                          user_request_type |-> "general"])
    ELSE
    LET current_details == st.appointment_details[1] IN
    IF ~Truthy(current_details.date)
    THEN collect_required(st, "appointment_details", current_details, "date",
                          "appointment_slot_date_asked", last_user_message, ex_out, q_out)
    ELSE IF ~Truthy(current_details.service_type)
    THEN collect_required(st, "appointment_details", current_details, "service_type",
                          "appointment_slot_service_type_asked", last_user_message, ex_out, q_out)
    ELSE IF ~Truthy(current_details.time)
    THEN collect_required(st, "appointment_details", current_details, "time",
                          "appointment_slot_time_asked", last_user_message, ex_out, q_out)
    ELSE IF current_details.details = NONE
    THEN collect_optional_details(st, current_details, last_user_message, ex_out, q_out)
    ELSE IF Truthy(current_details.service_type) /\ Truthy(current_details.date)
            /\ Truthy(current_details.time) /\ current_details.details # NONE
    THEN Update(st, [current_ai_response |-> NONE])
    ELSE Update(st, [current_ai_response |-> generate_question_with_llm("service_type", q_out),
                     appointment_details |-> AppointmentSchema("", "", "", NONE),
                     appointment_slot_service_type_asked |-> TRUE,
                     appointment_slot_date_asked |-> FALSE,
                     appointment_slot_time_asked |-> FALSE,
                     appointment_slot_details_asked |-> FALSE])

collect_appointment_details_node(st, last_user_message, ex_out, q_out) ==
    IF ~IsSchema(st.appointment_details)
    THEN IF st.user_request_type = "appointment"
         THEN Update(st, [appointment_details |-> AppointmentSchema("", "", "", NONE),
                          appointment_slot_service_type_asked |-> TRUE,
                          appointment_slot_date_asked |-> FALSE,
                          appointment_slot_time_asked |-> FALSE,
                          appointment_slot_details_asked |-> FALSE,
                          current_ai_response |-> generate_question_with_llm("service_type", q_out)])
         ELSE Update(st, [current_ai_response |-> "Error processing appointment.",
                          user_request_type |-> "general"])
    ELSE
    LET current_details == st.appointment_details[1] IN
    IF ~Truthy(current_details.service_type)
    THEN collect_required(st, "appointment_details", current_details, "service_type",
                          "appointment_slot_service_type_asked", last_user_message, ex_out, q_out)
    ELSE IF ~Truthy(current_details.date)
    THEN collect_required(st, "appointment_details", current_details, "date",
                          "appointment_slot_date_asked", last_user_message, ex_out, q_out)
    ELSE IF ~Truthy(current_details.time)
    THEN collect_required(st, "appointment_details", current_details, "time",
                          "appointment_slot_time_asked", last_user_message, ex_out, q_out)
    ELSE IF current_details.details = NONE
    THEN collect_optional_details(st, current_details, last_user_message, ex_out, q_out)
    ELSE IF Truthy(current_details.service_type) /\ Truthy(current_details.date)
            /\ Truthy(current_details.time) /\ current_details.details # NONE
    THEN Update(st, [current_ai_response |-> NONE])
    ELSE Update(st, [current_ai_response |-> generate_question_with_llm("service_type", q_out),
                     appointment_details |-> AppointmentSchema("", "", "", NONE),
                     appointment_slot_service_type_asked |-> TRUE,
                     appointment_slot_date_asked |-> FALSE,
                     appointment_slot_time_asked |-> FALSE,
                     appointment_slot_details_asked |-> FALSE])

PriorityValues == {"low", "medium", "high"}

\* Faulty variant of accept_priority: whatever was extracted becomes the priority
accept_priority_unchecked(current_details, extracted) ==
    IF Truthy(extracted)
    THEN [current_details EXCEPT !.priority = Lower(extracted)]
    ELSE current_details

\* The extracted answer to the priority question is stored, lower-cased, only
\* when it is one of the three priority values
accept_priority(current_details, extracted) ==
    IF Truthy(extracted) /\ Lower(extracted) \in PriorityValues
    THEN [current_details EXCEPT !.priority = Lower(extracted)]
    ELSE current_details

collect_ticket_details_node(st, last_user_message, ex_out, q_out) ==
    IF ~IsSchema(st.ticket_details)
    THEN IF st.user_request_type = "ticket"
         THEN Update(st, [ticket_details |-> TicketSchema("", "", "medium"),
                          ticket_slot_issue_type_asked |-> TRUE,
                          ticket_slot_description_asked |-> FALSE,
                          ticket_slot_priority_asked |-> FALSE,
                          current_ai_response |-> generate_question_with_llm("issue_type", q_out)])
         ELSE Update(st, [current_ai_response |-> "Error processing ticket.",
                          user_request_type |-> "general"])
    ELSE
    LET current_details == st.ticket_details[1]
        all_collected == Truthy(current_details.issue_type) /\ Truthy(current_details.description)
                         /\ ~st.ticket_slot_priority_asked
        tail == IF all_collected
                THEN Update(st, [current_ai_response |-> NONE])
                ELSE Update(st, [current_ai_response |-> generate_question_with_llm("issue_type", q_out)])
    IN
    IF ~Truthy(current_details.issue_type)
    THEN collect_required(st, "ticket_details", current_details, "issue_type",
                          "ticket_slot_issue_type_asked", last_user_message, ex_out, q_out)
    ELSE IF ~Truthy(current_details.description)
    THEN collect_required(st, "ticket_details", current_details, "description",
                          "ticket_slot_description_asked", last_user_message, ex_out, q_out)
    ELSE IF current_details.priority = "medium" /\ ~st.ticket_slot_priority_asked
    THEN IF Truthy(current_details.issue_type) /\ Truthy(current_details.description)
         THEN Update(st, [current_ai_response |-> generate_question_with_llm("priority", q_out),
                          ticket_slot_priority_asked |-> TRUE])
         ELSE tail
    ELSE IF st.ticket_slot_priority_asked
    THEN LET extracted == extract_info_with_llm("priority", last_user_message, ex_out) IN
         Update(st, [ticket_details |->
                         <<accept_priority(current_details, extracted)>>,
                     ticket_slot_priority_asked |-> FALSE,
                     current_ai_response |-> NONE])
    ELSE tail

\* The path condition of the fallback at the end of collect_appointment_details_node
\* (the struct is re-initialised and service_type asked again): none of the
\* four field blocks and not the all-collected block returned
appointment_fallback_reached(st) ==
    /\ IsSchema(st.appointment_details)
    /\ LET current_details == st.appointment_details[1] IN
       /\ ~(~Truthy(current_details.service_type))
       /\ ~(~Truthy(current_details.date))
       /\ ~(~Truthy(current_details.time))
       /\ ~(current_details.details = NONE)
       /\ ~(Truthy(current_details.service_type) /\ Truthy(current_details.date)
            /\ Truthy(current_details.time) /\ current_details.details # NONE)

\* The path condition of the fallback at the end of collect_ticket_details_node
\* (issue_type asked again)
ticket_fallback_reached(st) ==
    /\ IsSchema(st.ticket_details)
    /\ LET current_details == st.ticket_details[1] IN
       /\ ~(~Truthy(current_details.issue_type))
       /\ ~(~Truthy(current_details.description))
       /\ IF current_details.priority = "medium" /\ ~st.ticket_slot_priority_asked
          THEN ~(Truthy(current_details.issue_type) /\ Truthy(current_details.description))
          ELSE ~st.ticket_slot_priority_asked
       /\ ~(Truthy(current_details.issue_type) /\ Truthy(current_details.description)
            /\ ~st.ticket_slot_priority_asked)

appointment_complete(d) ==
    IsSchema(d) /\ Truthy(d[1].service_type) /\ Truthy(d[1].date) /\ Truthy(d[1].time)
    /\ d[1].details # NONE

ticket_complete(d) ==
    IsSchema(d) /\ Truthy(d[1].issue_type) /\ Truthy(d[1].description) /\ d[1].priority # NONE

generate_summary_node(st, out) ==
    LET request_type == st.user_request_type
        confirmation_question(summary_text) ==
            IF out = GatewayError THEN "Is this information correct? (yes/no)"
            ELSE IF out = "" THEN "" ELSE "confirm?"
    IN
    IF request_type = "appointment"
    THEN IF ~appointment_complete(st.appointment_details)
         THEN Update(st, [current_ai_response |-> "It seems some appointment details are missing.",
                          user_request_type |-> "appointment"])
         ELSE Update(st, [confirmation_summary |-> "appointment summary",
                          current_ai_response |-> confirmation_question("appointment summary")])
    ELSE IF request_type = "ticket"
    THEN IF ~ticket_complete(st.ticket_details)
         THEN Update(st, [current_ai_response |-> "It seems some ticket details are missing.",
                          user_request_type |-> "ticket"])
         ELSE Update(st, [confirmation_summary |-> "ticket summary",
                          current_ai_response |-> confirmation_question("ticket summary")])
    ELSE Update(st, [current_ai_response |-> "I'm not sure what I'm confirming.",
                     user_request_type |-> "general"])

\* Whether execute_tool_node calls schedule_appointment_tool / create_ticket_tool
invokes_tool(st) ==
    \/ st.user_request_type = "appointment" /\ IsSchema(st.appointment_details)
    \/ st.user_request_type = "ticket" /\ IsSchema(st.ticket_details)

\* Faulty variant of execute_tool_node: the reset forgets confirmation_summary
execute_tool_node_keeps_summary(st, outcome) ==
    LET tool_output ==
            IF ~invokes_tool(st) THEN "No valid details found to execute a tool."
            ELSE IF outcome = "raise" THEN "Sorry, there was an error processing your request."
            ELSE IF st.user_request_type = "appointment" THEN "Appointment confirmed"
            ELSE "Ticket created"
    IN
    Update(Update(Update(st, default_appt_flags), default_ticket_flags),
           [final_tool_response |-> tool_output,
            current_ai_response |-> tool_output,
            user_request_type |-> "general",
            appointment_details |-> <<>>,
            ticket_details |-> <<>>])

\* Faulty variant of execute_tool_node: the reset forgets the slot structs
execute_tool_node_keeps_details(st, outcome) ==
    LET tool_output ==
            IF ~invokes_tool(st) THEN "No valid details found to execute a tool."
            ELSE IF outcome = "raise" THEN "Sorry, there was an error processing your request."
            ELSE IF st.user_request_type = "appointment" THEN "Appointment confirmed"
            ELSE "Ticket created"
    IN
    Update(Update(Update(st, default_appt_flags), default_ticket_flags),
           [final_tool_response |-> tool_output,
            current_ai_response |-> tool_output,
            user_request_type |-> "general",
            confirmation_summary |-> NONE])

execute_tool_node(st, outcome) ==
    LET request_type == st.user_request_type
        tool_output ==
            IF ~invokes_tool(st) THEN "No valid details found to execute a tool."
            ELSE IF outcome = "raise" THEN "Sorry, there was an error processing your request."
            ELSE IF request_type = "appointment" THEN "Appointment confirmed"
            ELSE "Ticket created"
    IN
    Update(Update(Update(st, default_appt_flags), default_ticket_flags),
           [final_tool_response |-> tool_output,
            current_ai_response |-> tool_output,
            user_request_type |-> "general",
            appointment_details |-> <<>>,
            ticket_details |-> <<>>,
            confirmation_summary |-> NONE])

StaticApology == "I'm sorry, I couldn't find information on that."

\* Faulty variant of general_chat_node: a failing retrieval chain is not
\* followed by the plain completion
general_chat_node_no_fallback(st, outcome) ==
    LET rag_chain == IF outcome.rag_chain = "chain" THEN "chain" ELSE NONE
        basic_llm == IF outcome.llm = "ok" THEN "plain completion" ELSE StaticApology
        response_content ==
            IF rag_chain # NONE
            THEN IF outcome.rag = "ok" THEN "retrieved answer" ELSE StaticApology
            ELSE basic_llm
    IN
    Update(st, [current_ai_response |-> response_content])

general_chat_node(st, outcome) ==
    LET rag_chain == IF outcome.rag_chain = "chain" THEN "chain" ELSE NONE
        basic_llm == IF outcome.llm = "ok" THEN "plain completion" ELSE StaticApology
        response_content ==
            IF rag_chain # NONE
            THEN IF outcome.rag = "ok" THEN "retrieved answer" ELSE basic_llm
            ELSE basic_llm
    IN
    Update(st, [current_ai_response |-> response_content])

-----------------------------------------------------------------------------
(* Routing functions (the graph's conditional edges) *)

route_after_intent_classification(st) ==
    LET intent == st.user_request_type IN
    IF intent = "appointment" THEN "collect_appointment_details"
    ELSE IF intent = "ticket" THEN "collect_ticket_details"
    ELSE "general_chat"

\* Faulty variant of route_after_detail_collection: a null response always
\* leads to the summary, without the re-entry check for fields still empty
route_after_detail_collection_no_reentry(st) ==
    LET ai_response == st.current_ai_response
        current_intent == st.user_request_type
    IN
    IF ai_response = NONE
    THEN "generate_summary"
    ELSE IF current_intent = "appointment" THEN "collect_appointment_details"
         ELSE IF current_intent = "ticket" THEN "collect_ticket_details"
         ELSE "classify_intent"

route_after_detail_collection(st) ==
    LET ai_response == st.current_ai_response
        current_intent == st.user_request_type
    IN
    IF ai_response = NONE
    THEN IF current_intent = "appointment" /\ ~appointment_complete(st.appointment_details)
         THEN "collect_appointment_details"
         ELSE IF current_intent = "ticket" /\ ~ticket_complete(st.ticket_details)
         THEN "collect_ticket_details"
         ELSE "generate_summary"
    ELSE IF current_intent = "appointment" THEN "collect_appointment_details"
         ELSE IF current_intent = "ticket" THEN "collect_ticket_details"
         ELSE "classify_intent"

\* The routing function only returns the destination: what it assigns to its
\* argument (confirmation_summary, the asked flags, current_ai_response) is
\* not a node output and is not written to the channels.
route_after_summary_prompt(st, last_message_content, out) ==
    LET confirmation == extract_info_with_llm("confirmation", last_message_content, out)
        current_intent == st.user_request_type
    IN
    IF confirmation = "yes" THEN "execute_tool"
    ELSE IF current_intent = "appointment" THEN "collect_appointment_details"
    ELSE IF current_intent = "ticket" THEN "collect_ticket_details"
    ELSE "general_chat"

-----------------------------------------------------------------------------
(* The graph runtime and invoke_booking_graph *)

Nodes == {"classify_intent", "collect_appointment_details", "collect_ticket_details",
          "generate_summary", "execute_tool", "general_chat"}

\* Whether generate_summary_node, run on st, writes confirmation_summary
produces_summary(st) ==
    \/ st.user_request_type = "appointment" /\ appointment_complete(st.appointment_details)
    \/ st.user_request_type = "ticket" /\ ticket_complete(st.ticket_details)

SessionIds == {"A", "B"}

CallIds == {"call 1", "call 2"}

\* conversation_history, a list that only ever grows by `x + [message]` (the
\* input of a call) or by `x + x` (below), is kept in run-length form: a
\* sequence of entries [message, doublings], read left to right as
\* "append message to what precedes, then double the whole list `doublings` times"
HumanMessage(content) == [type |-> "human", content |-> content]

\* x + [message]
appended(x, message) == Append(x, [message |-> message, doublings |-> 0])

\* x + x
doubled(x) == IF x = <<>> THEN x ELSE [x EXCEPT ![Len(x)].doublings = @ + 1]

\* The reducer of the conversation_history channel, lambda x, y: x + y.  y is
\* either the one-message list of a call's input or, because every node
\* returns {**state, ...}, the node's copy of the whole list
conversation_history_reducer(x, y) == IF y = x THEN doubled(x) ELSE appended(x, y[1])

\* The channel values of a thread that has no checkpoint yet: every key absent
EmptyValues == [k \in DOMAIN InitialState \cup {"conversation_history"} |->
                   IF k = "conversation_history" THEN <<>> ELSE InitialState[k]]

\* A call that has not been made yet
NotCalled == [pc |-> "idle", session_id |-> NONE]

Init ==
    /\ state = InitialState
    /\ user_input = ""
    /\ pc = "idle"
    /\ steps = 0
    /\ confirmation_raw = NoCall
    /\ summary_turn = 0
    /\ tool_calls = 0
    /\ ai_response_to_user = NONE
    /\ replay = FALSE
    /\ checkpoints = [thread \in SessionIds |-> <<>>]
    /\ calls = [c \in CallIds |-> NotCalled]

\* A node ran: its output is checkpointed and the step is counted
\* and invoke_booking_graph's stream loop keeps the update's current_ai_response
\* when it is not None
Ran(new_state, next_node) ==
    /\ state' = new_state
    /\ pc' = next_node
    /\ steps' = steps + 1
    /\ ai_response_to_user' = IF new_state.current_ai_response # NONE
                              THEN new_state.current_ai_response
                              ELSE ai_response_to_user
    /\ UNCHANGED <<user_input, replay, sessionVars>>

KeepSummaryTurn(new_state) ==
    summary_turn' = IF new_state.confirmation_summary = NONE THEN 0 ELSE summary_turn

\* invoke_booking_graph: a new user message starts a run at the entry point
InvokeBookingGraph ==
    /\ pc \in {"idle", "raised"}
    /\ state.interaction_count < MaxInteractions
    /\ \E text \in UserTexts :
          /\ user_input' = text
          /\ replay' = (state.interaction_count > 0 /\ text = user_input /\ tool_calls > 0)
    /\ ai_response_to_user' = "Error: No response generated."
    /\ state' = [state EXCEPT !.interaction_count = state.interaction_count + 1]
    /\ pc' = "classify_intent"
    /\ steps' = 0
    /\ tool_calls' = 0
    /\ confirmation_raw' = NoCall
    /\ UNCHANGED <<summary_turn, sessionVars>>

ClassifyIntent ==
    /\ pc = "classify_intent"
    /\ steps < RecursionLimit
    /\ \E raw \in IntentOutputs \ {GatewayError} :
          LET new_state == classify_intent_node(state, user_input, raw) IN
          /\ Ran(new_state, route_after_intent_classification(new_state))
          /\ KeepSummaryTurn(new_state)
    /\ UNCHANGED <<confirmation_raw, tool_calls>>

\* The classification call is outside any try block: a Gateway error leaves the
\* run with the exception and the last checkpoint
ClassifyIntentRaises ==
    /\ pc = "classify_intent"
    /\ steps < RecursionLimit
    /\ GatewayError \in IntentOutputs
    /\ pc' = "raised"
    /\ UNCHANGED <<state, user_input, steps, confirmation_raw, summary_turn, tool_calls,
                   ai_response_to_user, replay, sessionVars>>

CollectAppointmentDetails ==
    /\ pc = "collect_appointment_details"
    /\ steps < RecursionLimit
    /\ \E ex \in FieldOutputs, q \in QuestionOutputs :
          LET new_state == collect_appointment_details_node(state, user_input, ex, q) IN
          /\ Ran(new_state, route_after_detail_collection(new_state))
          /\ KeepSummaryTurn(new_state)
    /\ UNCHANGED <<confirmation_raw, tool_calls>>

CollectTicketDetails ==
    /\ pc = "collect_ticket_details"
    /\ steps < RecursionLimit
    /\ \E ex \in IF state.ticket_slot_priority_asked THEN PriorityOutputs ELSE FieldOutputs,
          q \in QuestionOutputs :
          LET new_state == collect_ticket_details_node(state, user_input, ex, q) IN
          /\ Ran(new_state, route_after_detail_collection(new_state))
          /\ KeepSummaryTurn(new_state)
    /\ UNCHANGED <<confirmation_raw, tool_calls>>

GenerateSummary ==
    /\ pc = "generate_summary"
    /\ steps < RecursionLimit
    /\ \E q \in QuestionOutputs, c \in ConfirmationOutputs :
          LET new_state == generate_summary_node(state, q) IN
          /\ Ran(new_state, route_after_summary_prompt(new_state, user_input, c))
          /\ confirmation_raw' = IF user_input = "" THEN NoCall ELSE c
          /\ summary_turn' = IF produces_summary(state) THEN state.interaction_count
                             ELSE IF new_state.confirmation_summary = NONE THEN 0
                             ELSE summary_turn
    /\ UNCHANGED tool_calls

ExecuteTool ==
    /\ pc = "execute_tool"
    /\ steps < RecursionLimit
    /\ \E outcome \in ToolOutcomes :
          LET new_state == execute_tool_node(state, outcome) IN
          /\ Ran(new_state, "general_chat")
          /\ KeepSummaryTurn(new_state)
    /\ tool_calls' = IF invokes_tool(state) THEN tool_calls + 1 ELSE tool_calls
    /\ UNCHANGED confirmation_raw

GeneralChat ==
    /\ pc = "general_chat"
    /\ steps < RecursionLimit
    /\ \E outcome \in ChatOutcomes :
          LET new_state == general_chat_node(state, outcome) IN
          /\ Ran(new_state, "classify_intent")
          /\ KeepSummaryTurn(new_state)
    /\ UNCHANGED <<confirmation_raw, tool_calls>>

\* No edge of the graph leads to END: a run stops when the runtime's step
\* limit is reached, with GraphRecursionError
GraphRecursionError ==
    /\ pc \in Nodes
    /\ steps = RecursionLimit
    /\ pc' = "raised"
    /\ UNCHANGED <<state, user_input, steps, confirmation_raw, summary_turn, tool_calls,
                   ai_response_to_user, replay, sessionVars>>

Next ==
    \/ InvokeBookingGraph
    \/ ClassifyIntent
    \/ ClassifyIntentRaises
    \/ CollectAppointmentDetails
    \/ CollectTicketDetails
    \/ GenerateSummary
    \/ ExecuteTool
    \/ GeneralChat
    \/ GraphRecursionError

Spec == Init /\ [][Next]_vars

-----------------------------------------------------------------------------
(* The checkpointer and concurrent calls of invoke_booking_graph.  Each call *)
(* runs the same graph on channel values of its own, loaded from the         *)
(* checkpoint of its thread when the stream starts; after every step the     *)
(* runtime writes the values to the checkpointer under the call's thread_id. *)

\* What the Language Model Gateway, the tools and the retrieval chain do during
\* one call
GatewayBehaviours ==
    {[intent |-> "general", field |-> "val", question |-> "ok", confirmation |-> "no",
      tool |-> "ok", chat |-> [rag_chain |-> "chain", rag |-> "ok", llm |-> "ok"]],
     [intent |-> "appointment", field |-> "val", question |-> "ok", confirmation |-> "no",
      tool |-> "ok", chat |-> [rag_chain |-> "chain", rag |-> "ok", llm |-> "ok"]]}

SessionTexts == {"next monday"}

\* Faulty variant of config: every session shares one thread
config_one_thread(session_id) == [configurable |-> [thread_id |-> "A"]]

config(session_id) == [configurable |-> [thread_id |-> session_id]]

\* app_graph.get_state(config).values
get_state(cfg) ==
    LET saved == checkpoints[cfg.configurable.thread_id] IN
    IF saved = <<>> THEN EmptyValues ELSE saved[1]

\* checkpointer.put: the checkpoint of the thread is replaced
put(cfg, values) == [checkpoints EXCEPT ![cfg.configurable.thread_id] = <<values>>]

\* The node `node` run on channel values st
node_output(node, st, text, g) ==
    CASE node = "classify_intent" -> classify_intent_node(st, text, g.intent)
      [] node = "collect_appointment_details" ->
            collect_appointment_details_node(st, text, g.field, g.question)
      [] node = "collect_ticket_details" ->
            collect_ticket_details_node(st, text, g.field, g.question)
      [] node = "generate_summary" -> generate_summary_node(st, g.question)
      [] node = "execute_tool" -> execute_tool_node(st, g.tool)
      [] node = "general_chat" -> general_chat_node(st, g.chat)

\* The edge that leaves `node`
next_node(node, new_state, text, g) ==
    CASE node = "classify_intent" -> route_after_intent_classification(new_state)
      [] node \in {"collect_appointment_details", "collect_ticket_details"} ->
            route_after_detail_collection(new_state)
      [] node = "generate_summary" -> route_after_summary_prompt(new_state, text, g.confirmation)
      [] node = "execute_tool" -> "general_chat"
      [] node = "general_chat" -> "classify_intent"

\* The runtime writes a node's output dict to the channels: conversation_history
\* through its reducer, every other key by replacement
apply_writes(channels, output) ==
    [output EXCEPT !.conversation_history =
        conversation_history_reducer(channels.conversation_history, @)]

\* Faulty variant of stream_raised: the exception is swallowed and the run goes on
stream_raised_swallowed(call, exception, continued) == continued

\* An exception raised inside app_graph.stream: nothing in the stream loop or
\* in invoke_booking_graph catches it, the call ends with it, its locals are
\* gone and nothing is returned
stream_raised(call, exception, continued) ==
    [pc |-> "raised", session_id |-> call.session_id, error |-> exception]

Started(c) == calls[c].pc # "idle"

Active(c) == calls[c].pc \notin {"idle", "raised"}

\* The calls are numbered in the order in which they are made, and the session
\* of the first call is the one named A
CallOrder(c, session_id) ==
    IF c = "call 1" THEN session_id = "A" ELSE calls["call 1"].pc # "idle"

\* invoke_booking_graph(session_id, user_input) up to the stream: the snapshot
\* of the thread is read and interaction_count computed from it
CallInvokeBookingGraph(c) ==
    /\ calls[c].pc = "idle"
    /\ \E session_id \in SessionIds, text \in SessionTexts, g \in GatewayBehaviours :
          /\ CallOrder(c, session_id)
          /\ LET current_state_snapshot == get_state(config(session_id)) IN
             calls' = [calls EXCEPT ![c] =
                       [pc |-> "stream", session_id |-> session_id, user_input |-> text,
                        gateway |-> g,
                        interaction_count |-> current_state_snapshot.interaction_count + 1,
                        channels |-> EmptyValues, steps |-> 0,
                        ai_response_to_user |-> "Error: No response generated."]]
    /\ UNCHANGED <<checkpoints, dialogueVars>>

\* app_graph.stream(inputs, config) begins: the channels are loaded from the
\* thread's checkpoint, the inputs are written to them and checkpointed
StreamStarts(c) ==
    /\ calls[c].pc = "stream"
    /\ LET call == calls[c]
           loaded == get_state(config(call.session_id))
           channels == [loaded EXCEPT
                           !.conversation_history =
                               conversation_history_reducer(@, <<HumanMessage(call.user_input)>>),
                           !.interaction_count = call.interaction_count]
       IN
       /\ calls' = [calls EXCEPT ![c] = [call EXCEPT !.pc = "classify_intent",
                                                     !.channels = channels]]
       /\ checkpoints' = put(config(call.session_id), channels)
    /\ UNCHANGED dialogueVars

\* One graph step of a call: the node runs on the call's channels, its output
\* is written to them and checkpointed, the stream loop collects the reply
NodeRuns(c) ==
    /\ calls[c].pc \in Nodes
    /\ calls[c].steps < RecursionLimit
    /\ LET call == calls[c]
           output == node_output(call.pc, call.channels, call.user_input, call.gateway)
           channels == apply_writes(call.channels, output)
       IN
       /\ calls' = [calls EXCEPT ![c] =
                       [call EXCEPT !.pc = next_node(call.pc, output, call.user_input, call.gateway),
                                    !.channels = channels,
                                    !.steps = @ + 1,
                                    !.ai_response_to_user =
                                        IF output.current_ai_response # NONE
                                        THEN output.current_ai_response ELSE @]]
       /\ checkpoints' = put(config(call.session_id), channels)
    /\ UNCHANGED dialogueVars

\* The Session Store is unavailable when a step's checkpoint is to be written
CheckpointWriteFails(c) ==
    /\ calls[c].pc \in Nodes
    /\ calls[c].steps < RecursionLimit
    /\ LET call == calls[c]
           output == node_output(call.pc, call.channels, call.user_input, call.gateway)
           continued == [call EXCEPT
                            !.pc = next_node(call.pc, output, call.user_input, call.gateway),
                            !.channels = apply_writes(call.channels, output),
                            !.steps = @ + 1]
       IN
       calls' = [calls EXCEPT ![c] = stream_raised(call, "PersistenceFailure", continued)]
    /\ UNCHANGED <<checkpoints, dialogueVars>>

\* The step limit of the runtime ends the run of a call
CallGraphRecursionError(c) ==
    /\ calls[c].pc \in Nodes
    /\ calls[c].steps = RecursionLimit
    /\ calls' = [calls EXCEPT ![c] = stream_raised(calls[c], "GraphRecursionError", calls[c])]
    /\ UNCHANGED <<checkpoints, dialogueVars>>

SessionsNext ==
    \E c \in CallIds :
        \/ CallInvokeBookingGraph(c)
        \/ StreamStarts(c)
        \/ NodeRuns(c)
        \/ CheckpointWriteFails(c)
        \/ CallGraphRecursionError(c)

SpecSessions == Init /\ [][SessionsNext]_vars

-----------------------------------------------------------------------------
(* Properties *)

InTurn == pc \in Nodes

AnyAskedFlagSet(old, new) ==
    \E k \in DOMAIN default_appt_flags \cup DOMAIN default_ticket_flags : ~old[k] /\ new[k]

ToolSuccess == {"Appointment confirmed", "Ticket created"}

ToolFailure == "Sorry, there was an error processing your request."

\* C1: every turn ends by itself: the routing never keeps selecting a next
\* component until the runtime's step limit cuts the run off.
C1_EveryTurnEnds == ~(InTurn /\ steps = RecursionLimit)

\* C2: once a Slot Collector step has produced a question (current_ai_response
\* set, an asked flag newly true), no further component runs in that turn.
C2_YieldOnQuestion ==
    [][(pc \in {"collect_appointment_details", "collect_ticket_details"}
        /\ state'.current_ai_response # NONE
        /\ AnyAskedFlagSet(state, state'))
       => pc' \notin Nodes]_vars

\* C3: the Tool Dispatcher runs only on a 'yes' given in a turn strictly after
\* the turn that produced the confirmation summary.
C3_ConsentFollowsSummary ==
    pc = "execute_tool" => (summary_turn # 0 /\ summary_turn < state.interaction_count)

\* C4: the Tool Dispatcher is reached only when the confirmation call was made
\* on a non-empty user message, did not fail, and answered exactly 'yes'
\* (after strip and lower-casing); everything else is a 'no'.
C4_FailClosed ==
    pc = "execute_tool" =>
        /\ user_input # ""
        /\ confirmation_raw \notin {NoCall, GatewayError}
        /\ Lower(Strip(confirmation_raw)) = "yes"

C4_Witness == pc = "execute_tool" /\ confirmation_raw = " yes\n" /\ user_input = "next monday"

\* C5: at most one tool invocation in any single turn.
C5_AtMostOneDispatch == tool_calls <= 1

\* C6 (Invariant A): appointment_details and ticket_details are never both non-null.
C6_InvariantA == ~(IsSchema(state.appointment_details) /\ IsSchema(state.ticket_details))

\* a ticket collection that replaced an appointment collection whose question
\* was still outstanding (the appointment flag is left over from it)
C6_Witness ==
    /\ IsSchema(state.ticket_details)
    /\ ~IsSchema(state.appointment_details)
    /\ state.appointment_slot_service_type_asked

\* The value of a field of an Optional struct; a null struct holds no value
FieldValue(d, field) == IF IsSchema(d) THEN d[1][field] ELSE NONE

Empty(v) == ~Truthy(v)

AskedOnlyWhileEmpty(st) ==
    /\ st.appointment_slot_service_type_asked => Empty(FieldValue(st.appointment_details, "service_type"))
    /\ st.appointment_slot_date_asked => Empty(FieldValue(st.appointment_details, "date"))
    /\ st.appointment_slot_time_asked => Empty(FieldValue(st.appointment_details, "time"))
    /\ st.appointment_slot_details_asked => Empty(FieldValue(st.appointment_details, "details"))
    /\ st.ticket_slot_issue_type_asked => Empty(FieldValue(st.ticket_details, "issue_type"))
    /\ st.ticket_slot_description_asked => Empty(FieldValue(st.ticket_details, "description"))

\* C7 (Invariant B) as stated: for every field, ticket priority included, the
\* asked flag is true only if the field's value is empty.
C7_InvariantB_AsStated ==
    /\ AskedOnlyWhileEmpty(state)
    /\ state.ticket_slot_priority_asked => Empty(FieldValue(state.ticket_details, "priority"))

\* C7 (Invariant B) amended: the asked flag of service_type, date, time,
\* details, issue_type and description is true only if the value is empty;
\* the asked flag of priority is true only while priority still holds its
\* default 'medium' (priority is never empty).
C7_InvariantB ==
    /\ AskedOnlyWhileEmpty(state)
    /\ state.ticket_slot_priority_asked =>
          FieldValue(state.ticket_details, "priority") \in {NONE, "medium"}

\* the priority question is outstanding on a ticket whose other fields are filled
C7_Witness ==
    /\ state.ticket_slot_priority_asked
    /\ FieldValue(state.ticket_details, "priority") = "medium"
    /\ FieldValue(state.ticket_details, "issue_type") = "val"
    /\ ~state.ticket_slot_issue_type_asked

\* C8 (Invariant C): confirmation_summary is non-null only if the active intent
\* is appointment or ticket and every required field of its struct is filled.
C8_InvariantC ==
    state.confirmation_summary # NONE =>
        \/ /\ state.user_request_type = "appointment"
           /\ Truthy(FieldValue(state.appointment_details, "service_type"))
           /\ Truthy(FieldValue(state.appointment_details, "date"))
           /\ Truthy(FieldValue(state.appointment_details, "time"))
        \/ /\ state.user_request_type = "ticket"
           /\ Truthy(FieldValue(state.ticket_details, "issue_type"))
           /\ Truthy(FieldValue(state.ticket_details, "description"))

\* a summary was just produced for a complete ticket
C8_Witness ==
    /\ state.confirmation_summary = "ticket summary"
    /\ state.user_request_type = "ticket"
    /\ pc = "execute_tool"

\* C9: a failed Tool Dispatch (the tool raised) leaves current_intent, both
\* slot structs and confirmation_summary as they were before the dispatch.
C9_FailedDispatchKeepsState ==
    [][(pc = "execute_tool" /\ state'.final_tool_response = ToolFailure)
       => /\ state'.user_request_type = state.user_request_type
          /\ state'.appointment_details = state.appointment_details
          /\ state'.ticket_details = state.ticket_details
          /\ state'.confirmation_summary = state.confirmation_summary]_vars

FullyReset(st) ==
    /\ st.user_request_type = "general"
    /\ st.appointment_details = <<>>
    /\ st.ticket_details = <<>>
    /\ st.confirmation_summary = NONE
    /\ \A k \in DOMAIN default_appt_flags \cup DOMAIN default_ticket_flags : ~st[k]

\* C10: after a successful Tool Dispatch (final_tool_response holds the tool's
\* result) the state is fully reset: intent 'general', both structs null,
\* confirmation_summary null, all seven asked flags false.
C10_SuccessResets == state.final_tool_response \in ToolSuccess => FullyReset(state)

C10_Witness == state.final_tool_response = "Appointment confirmed" /\ pc = "general_chat"

\* C11: a turn that replays the user_text of a turn that dispatched, against
\* the state that turn left, does not invoke the Tool Dispatcher again and
\* has no question outstanding for a field that is already filled.
C11_IdempotentReplay == replay => (tool_calls = 0 /\ AskedOnlyWhileEmpty(state))

\* C12: once the Tool Dispatcher has run in a turn, no component that runs
\* after it replaces the reply collected by invoke_booking_graph.
C12_ToolResultIsReply ==
    [][(tool_calls > 0 /\ InTurn /\ pc # "execute_tool")
       => ai_response_to_user' = ai_response_to_user]_vars

\* The DialogueState of a session with no intake in progress
EmptyDialogue(st) ==
    /\ st.user_request_type \in {NONE, "general"}
    /\ st.appointment_details = <<>>
    /\ st.ticket_details = <<>>
    /\ st.confirmation_summary = NONE
    /\ \A k \in DOMAIN default_appt_flags \cup DOMAIN default_ticket_flags : ~st[k]

AtTurnStart == pc = "classify_intent" /\ steps = 0

\* Gateway outputs that name the appointment workflow
AppointmentIntentOutputs ==
    {raw \in IntentOutputs \ {GatewayError} : Contains(Lower(Strip(raw)), "appointment")}

\* What the Gateway extracts from an utterance that states service, date and
\* time and says there are no further details
ExtractableOutputs(st) ==
    IF Truthy(FieldValue(st.appointment_details, "time")) THEN {"val", " None ", "NONE"}
    ELSE {"val"}

\* One graph step of the appointment collector and its conditional edge, for
\* every such Gateway behaviour
ExtractableStep(c, text) ==
    IF c.pc # "collect_appointment_details" THEN {c}
    ELSE {[state |-> n, pc |-> route_after_detail_collection(n)] :
             n \in {collect_appointment_details_node(c.state, text, ex, q) :
                       ex \in ExtractableOutputs(c.state), q \in QuestionOutputs}}

RECURSIVE ExtractableRun(_, _, _)
ExtractableRun(C, text, k) ==
    IF k = 0 THEN C
    ELSE ExtractableRun(UNION {ExtractableStep(c, text) : c \in C}, text, k - 1)

\* C13: from the empty state, one utterance from which the Gateway extracts
\* service_type, date, time and details takes the run, in that turn, to
\* generate_summary with all four fields filled and no question pending, and
\* generate_summary_node then makes the confirmation question the reply.
C13_OpportunisticExtraction ==
    (AtTurnStart /\ EmptyDialogue(state) /\ user_input # "") =>
        \A raw \in AppointmentIntentOutputs :
            LET s1 == classify_intent_node(state, user_input, raw) IN
            /\ route_after_intent_classification(s1) = "collect_appointment_details"
            /\ \A c \in ExtractableRun({[state |-> s1, pc |-> "collect_appointment_details"]},
                                       user_input, 8) :
                  /\ c.pc = "generate_summary"
                  /\ appointment_complete(c.state.appointment_details)
                  /\ c.state.current_ai_response = NONE
                  /\ \A q \in QuestionOutputs :
                        LET s == generate_summary_node(c.state, q) IN
                        /\ s.confirmation_summary = "appointment summary"
                        /\ s.current_ai_response # NONE

\* the first turn of a session reached the Confirmation Manager in nine steps
C13_Witness ==
    /\ state.interaction_count = 1
    /\ steps = 9
    /\ pc = "generate_summary"
    /\ appointment_complete(state.appointment_details)
    /\ ai_response_to_user \in {"ask details", "", "Could you provide more information?"}

\* An appointment of which only service_type is known, nothing asked
OnlyServiceKnown(st) ==
    /\ st.user_request_type = "appointment"
    /\ Truthy(FieldValue(st.appointment_details, "service_type"))
    /\ FieldValue(st.appointment_details, "date") = ""
    /\ FieldValue(st.appointment_details, "time") = ""
    /\ FieldValue(st.appointment_details, "details") = NONE
    /\ \A k \in DOMAIN default_appt_flags : ~st[k]

\* C14: when only service_type is known, the turn produces the date question
\* and then ends (so no second question, for time, details or date again).
C14_OneQuestionThenEnd ==
    (AtTurnStart /\ OnlyServiceKnown(state)) =>
        \A raw \in IntentOutputs \ {GatewayError} :
            LET s1 == classify_intent_node(state, user_input, raw) IN
            (s1.user_request_type = "appointment") =>
                \A ex \in FieldOutputs, q \in QuestionOutputs :
                    LET s2 == collect_appointment_details_node(s1, user_input, ex, q) IN
                    /\ s2.appointment_slot_date_asked
                    /\ s2.current_ai_response # NONE
                    /\ route_after_detail_collection(s2) \notin Nodes

ActiveFlagsFalse(st) ==
    /\ st.user_request_type = "appointment" => \A k \in DOMAIN default_appt_flags : ~st[k]
    /\ st.user_request_type = "ticket" => \A k \in DOMAIN default_ticket_flags : ~st[k]

\* C15: a confirmation reply that is not 'yes' leaves the state written by
\* generate_summary_node with the same current_intent, the same slot structs
\* and every asked flag of the active struct false, and routes back to the
\* collector of that intent.
C15_DeclineKeepsValues ==
    (pc = "generate_summary" /\ produces_summary(state)) =>
        \A q \in QuestionOutputs, c \in ConfirmationOutputs :
            LET s == generate_summary_node(state, q)
                next == route_after_summary_prompt(s, user_input, c)
            IN
            next # "execute_tool" =>
                /\ s.user_request_type = state.user_request_type
                /\ s.appointment_details = state.appointment_details
                /\ s.ticket_details = state.ticket_details
                /\ ActiveFlagsFalse(s)
                /\ next = route_after_intent_classification(s)

\* the collector runs again after an unclear reply to the summary
C15_Witness ==
    /\ pc = "collect_ticket_details"
    /\ confirmation_raw = "maybe"
    /\ state.confirmation_summary = "ticket summary"
    /\ ticket_complete(state.ticket_details)

\* A confirmation classification of this turn did not come out as 'yes'
Declined ==
    \/ confirmation_raw # NoCall /\ Lower(Strip(confirmation_raw)) # "yes"
    \/ user_input = "" /\ summary_turn = state.interaction_count

\* C16: after a reply classified as not 'yes', the Confirmation Manager is not
\* entered again in the same turn.
C16_DeclineEndsTurn == ~(Declined /\ pc = "generate_summary")

NamesNoWorkflow(raw) ==
    /\ ~Contains(Lower(Strip(raw)), "appointment")
    /\ ~Contains(Lower(Strip(raw)), "ticket")

NoIntentKeyword(text) == ~ \E kw \in IntentKeywords : Contains(Lower(text), kw)

CollectionInProgress(st) ==
    \/ st.user_request_type = "appointment" /\ IsSchema(st.appointment_details)
    \/ st.user_request_type = "ticket" /\ IsSchema(st.ticket_details)

SameIntake(a, b) ==
    /\ a.user_request_type = b.user_request_type
    /\ a.appointment_details = b.appointment_details
    /\ a.ticket_details = b.ticket_details
    /\ \A k \in DOMAIN default_appt_flags \cup DOMAIN default_ticket_flags : a[k] = b[k]

StickyOn(texts) ==
    (pc = "classify_intent" /\ CollectionInProgress(state)
     /\ user_input \in texts /\ NoIntentKeyword(user_input)) =>
        \A raw \in IntentOutputs \ {GatewayError} :
            NamesNoWorkflow(raw) =>
                SameIntake(classify_intent_node(state, user_input, raw), state)

\* C17 as stated: mid-collection, a classification naming neither workflow on
\* a user text without a competing/cancel keyword keeps intent, struct and flags.
C17_StickyIntent_AsStated == StickyOn(UserTexts)

\* C17 amended: the same, for a user text that is not empty.
C17_StickyIntent == StickyOn(UserTexts \ {""})

\* a later turn continues an appointment whose date question was outstanding
C17_Witness ==
    /\ state.interaction_count >= 2
    /\ steps = 1
    /\ pc = "collect_appointment_details"
    /\ user_input = "next monday"
    /\ state.appointment_slot_date_asked
    /\ FieldValue(state.appointment_details, "service_type") = "val"

\* C18: when classify_intent_node changes current_intent, the struct of the
\* abandoned workflow becomes null, and a new workflow's struct is freshly
\* initialised with all of its asked flags false.
C18_IntentChangeResets ==
    pc = "classify_intent" =>
        \A raw \in IntentOutputs \ {GatewayError} :
            LET n == classify_intent_node(state, user_input, raw) IN
            n.user_request_type # state.user_request_type =>
                /\ state.user_request_type = "appointment" => n.appointment_details = <<>>
                /\ state.user_request_type = "ticket" => n.ticket_details = <<>>
                /\ n.user_request_type = "appointment" =>
                      /\ n.appointment_details = AppointmentSchema("", "", "", NONE)
                      /\ \A k \in DOMAIN default_appt_flags : ~n[k]
                /\ n.user_request_type = "ticket" =>
                      /\ n.ticket_details = TicketSchema("", "", "medium")
                      /\ \A k \in DOMAIN default_ticket_flags : ~n[k]

\* a fresh ticket replaced an appointment that had a value and an open question
C18_Witness ==
    /\ steps = 1
    /\ pc = "collect_ticket_details"
    /\ state.ticket_details = TicketSchema("", "", "medium")
    /\ state.appointment_details = <<>>
    /\ state.appointment_slot_date_asked

\* Gateway outputs of a failed extraction: 'None', an empty string, an error
FailedOutputs == {out \in FieldOutputs \cup PriorityOutputs :
                     out = GatewayError \/ Strip(out) = "" \/ Lower(Strip(out)) = "none"}

\* Gateway outputs that are an error or empty
ErrorOrEmptyOutputs == {out \in FailedOutputs : out = GatewayError \/ Strip(out) = ""}

AskedFlag(field) ==
    CASE field = "service_type" -> "appointment_slot_service_type_asked"
      [] field = "date" -> "appointment_slot_date_asked"
      [] field = "time" -> "appointment_slot_time_asked"
      [] field = "details" -> "appointment_slot_details_asked"
      [] field = "issue_type" -> "ticket_slot_issue_type_asked"
      [] field = "description" -> "ticket_slot_description_asked"
      [] field = "priority" -> "ticket_slot_priority_asked"

AppointmentFields == <<"service_type", "date", "time", "details">>

TicketFields == <<"issue_type", "description", "priority">>

\* The collector of the run is about to extract fields[i]: every earlier field
\* is filled, this one is not, and its question was asked
ExtractionPending(node, details, fields, i) ==
    /\ pc = node
    /\ IsSchema(details)
    /\ \A j \in 1..(i - 1) : Truthy(details[1][fields[j]])
    /\ state[AskedFlag(fields[i])]

\* C19: when the extraction of a required field fails, the field stays empty,
\* the same question is emitted again and the field's asked flag stays true.
C19_FailedExtractionReasks ==
    /\ \A i \in 1..3 :
          (ExtractionPending("collect_appointment_details", state.appointment_details,
                             AppointmentFields, i)
           /\ ~Truthy(state.appointment_details[1][AppointmentFields[i]])) =>
              \A ex \in FailedOutputs \cap FieldOutputs, q \in QuestionOutputs :
                  LET n == collect_appointment_details_node(state, user_input, ex, q) IN
                  /\ ~Truthy(n.appointment_details[1][AppointmentFields[i]])
                  /\ n.current_ai_response = generate_question_with_llm(AppointmentFields[i], q)
                  /\ n[AskedFlag(AppointmentFields[i])]
    /\ \A i \in 1..2 :
          (ExtractionPending("collect_ticket_details", state.ticket_details, TicketFields, i)
           /\ ~Truthy(state.ticket_details[1][TicketFields[i]])) =>
              \A ex \in FailedOutputs \cap FieldOutputs, q \in QuestionOutputs :
                  LET n == collect_ticket_details_node(state, user_input, ex, q) IN
                  /\ ~Truthy(n.ticket_details[1][TicketFields[i]])
                  /\ n.current_ai_response = generate_question_with_llm(TicketFields[i], q)
                  /\ n[AskedFlag(TicketFields[i])]

\* C20: a Gateway error or an empty Gateway response during an extraction
\* never fills the field being extracted, whichever field of either struct it is.
C20_NoFillOnGatewayFailure ==
    /\ \A i \in 1..4 :
          (ExtractionPending("collect_appointment_details", state.appointment_details,
                             AppointmentFields, i)
           /\ ~Truthy(state.appointment_details[1][AppointmentFields[i]])) =>
              \A ex \in ErrorOrEmptyOutputs \cap FieldOutputs, q \in QuestionOutputs :
                  collect_appointment_details_node(state, user_input, ex, q)
                      .appointment_details[1][AppointmentFields[i]]
                  = state.appointment_details[1][AppointmentFields[i]]
    /\ \A i \in 1..3 :
          (ExtractionPending("collect_ticket_details", state.ticket_details, TicketFields, i)
           /\ (i < 3 => ~Truthy(state.ticket_details[1][TicketFields[i]]))) =>
              \A ex \in ErrorOrEmptyOutputs, q \in QuestionOutputs :
                  collect_ticket_details_node(state, user_input, ex, q)
                      .ticket_details[1][TicketFields[i]]
                  = state.ticket_details[1][TicketFields[i]]

\* C21: a Gateway failure during intent classification is recovered inside the
\* turn: the classification step is always followed by another component of
\* the run (the one that produces the reply); the run is not aborted there.
C21_ClassificationFailureRecovered ==
    [][(pc = "classify_intent" /\ steps < RecursionLimit) => pc' \in Nodes]_vars

Collectors == {"collect_appointment_details", "collect_ticket_details"}

\* One graph step of a Slot Collector node and its conditional edge, for every
\* Gateway behaviour; a run that has left the collectors stays where it is
CollectorStep(c, text) ==
    IF c.pc = "collect_appointment_details"
    THEN {[state |-> n, pc |-> route_after_detail_collection(n)] :
             n \in {collect_appointment_details_node(c.state, text, ex, q) :
                       ex \in FieldOutputs, q \in QuestionOutputs}}
    ELSE IF c.pc = "collect_ticket_details"
    THEN {[state |-> n, pc |-> route_after_detail_collection(n)] :
             n \in {collect_ticket_details_node(c.state, text, ex, q) :
                       ex \in IF c.state.ticket_slot_priority_asked
                              THEN PriorityOutputs ELSE FieldOutputs,
                       q \in QuestionOutputs}}
    ELSE {c}

RECURSIVE CollectorRun(_, _, _)
CollectorRun(C, text, k) ==
    IF k = 0 THEN C
    ELSE CollectorRun(UNION {CollectorStep(c, text) : c \in C}, text, k - 1)

FieldCount(node) ==
    IF node = "collect_appointment_details" THEN Len(AppointmentFields) ELSE Len(TicketFields)

\* C22: when a turn enters a Slot Collector, then after as many consecutive
\* entries as the entity has fields (4 for an appointment, 3 for a ticket) the
\* routing does not select a Slot Collector again, whatever the Gateway returns.
C22_IterationCap ==
    (pc \in Collectors /\ steps = 1) =>
        \A c \in CollectorRun({[state |-> state, pc |-> pc]}, user_input, FieldCount(pc)) :
            c.pc \notin Collectors

SameSession(c1, c2) ==
    c1 # c2 /\ Started(c1) /\ Started(c2) /\ calls[c1].session_id = calls[c2].session_id

Ended(c) == calls[c].pc = "raised"

\* C23: two calls on the same session_id are serialized: their
\* read-state/compute/write sequences never overlap, and when both have ended
\* the session's interaction_count is two higher than it started.
C23_TurnsSerialized ==
    \A c1, c2 \in CallIds :
        SameSession(c1, c2) =>
            /\ ~(Active(c1) /\ Active(c2))
            /\ (Ended(c1) /\ Ended(c2)) =>
                  get_state(config(calls[c1].session_id)).interaction_count = 2

\* the lost update alone, whatever the overlap: both calls of one session have ended
C23_LostUpdate ==
    \A c1, c2 \in CallIds :
        (SameSession(c1, c2) /\ Ended(c1) /\ Ended(c2)) =>
            get_state(config(calls[c1].session_id)).interaction_count = 2

RECURSIVE repeated(_, _)
repeated(list, doublings) ==
    IF doublings = 0 THEN list ELSE repeated(list \o list, doublings - 1)

\* The list of messages that a conversation_history in run-length form stands for
RECURSIVE entries(_)
entries(x) ==
    IF x = <<>> THEN <<>>
    ELSE repeated(Append(entries(SubSeq(x, 1, Len(x) - 1)), x[Len(x)].message),
                  x[Len(x)].doublings)

\* C26: a component step leaves the entries of conversation_history as they
\* are, or appends the assistant reply to them; it never removes, reorders or
\* duplicates an entry.
C26_HistoryAppendOnly ==
    [][\A c \in CallIds :
          (calls[c].pc \in Nodes /\ calls'[c].pc \in Nodes) =>
              LET old == entries(calls[c].channels.conversation_history)
                  new == entries(calls'[c].channels.conversation_history)
              IN
              \/ new = old
              \/ /\ Len(new) = Len(old) + 1
                 /\ SubSeq(new, 1, Len(old)) = old
                 /\ new[Len(new)].type = "ai"]_vars

\* C28: the persisted state of a session (intent, slot structs, asked flags,
\* history, turn counter) changes only in a step of a call made on that
\* session; a step of a call on another session leaves it unchanged.
C28_SessionsIndependent ==
    [][\A thread \in SessionIds :
          checkpoints'[thread] # checkpoints[thread] =>
              \E c \in CallIds : calls[c].session_id = thread /\ calls'[c] # calls[c]]_vars

\* two sessions in progress at once, an appointment in one and general chat in
\* the other
C28_Witness ==
    /\ Active("call 1") /\ Active("call 2")
    /\ calls["call 2"].session_id = "B"
    /\ checkpoints["A"] # <<>> /\ checkpoints["B"] # <<>>
    /\ checkpoints["A"][1].user_request_type = "appointment"
    /\ checkpoints["A"][1].appointment_slot_date_asked
    /\ checkpoints["B"][1].user_request_type = "general"
    /\ checkpoints["B"][1].appointment_details = <<>>

\* The argument execute_tool_node passes to the tool: the struct's model_dump()
tool_input(st) ==
    IF st.user_request_type = "appointment" THEN st.appointment_details[1]
    ELSE st.ticket_details[1]

\* C25: every tool call carries a correlation id (derived from the session id
\* and the turn counter), by which the downstream service can tell a retried
\* dispatch from a new one.
C25_RetrySafeDispatch ==
    (pc = "execute_tool" /\ invokes_tool(state)) =>
        "correlation_id" \in DOMAIN tool_input(state)

RetrievalAnswers(outcome) == outcome.rag_chain = "chain" /\ outcome.rag = "ok"

\* C27: General-Chat Fallback answers with the retrieval chain when that is
\* available and succeeds, otherwise with a plain completion, otherwise with
\* the static apology; the reply is never null, and current_intent, both slot
\* structs, all asked flags and confirmation_summary are left unchanged.
C27_GeneralChatFallback ==
    pc = "general_chat" =>
        \A outcome \in ChatOutcomes :
            LET n == general_chat_node(state, outcome) IN
            /\ RetrievalAnswers(outcome) => n.current_ai_response = "retrieved answer"
            /\ (~RetrievalAnswers(outcome) /\ outcome.llm = "ok") =>
                  n.current_ai_response = "plain completion"
            /\ (~RetrievalAnswers(outcome) /\ outcome.llm = "raise") =>
                  n.current_ai_response = StaticApology
            /\ n.current_ai_response # NONE
            /\ SameIntake(n, state)
            /\ n.confirmation_summary = state.confirmation_summary

\* general chat was answered by the plain completion in a later turn of a session
C27_Witness ==
    /\ pc = "classify_intent"
    /\ steps = 2
    /\ state.interaction_count >= 2
    /\ state.user_request_type = "general"
    /\ state.current_ai_response = "plain completion"

\* C29: fields are filled in declared order.  In an appointment struct date is
\* non-empty only if service_type is, time only if date is, details non-null
\* only if time is non-empty; in a ticket struct description is non-empty only
\* if issue_type is.  No field's question is outstanding (asked flag set, so
\* that the next step extracts it) while an earlier field is still empty.
C29_DeclaredOrder ==
    /\ IsSchema(state.appointment_details) =>
          LET d == state.appointment_details[1] IN
          /\ Truthy(d.date) => Truthy(d.service_type)
          /\ Truthy(d.time) => Truthy(d.date)
          /\ d.details # NONE => Truthy(d.time)
          /\ state.appointment_slot_date_asked => Truthy(d.service_type)
          /\ state.appointment_slot_time_asked => Truthy(d.date)
          /\ state.appointment_slot_details_asked => Truthy(d.time)
    /\ IsSchema(state.ticket_details) =>
          LET d == state.ticket_details[1] IN
          /\ Truthy(d.description) => Truthy(d.issue_type)
          /\ state.ticket_slot_description_asked => Truthy(d.issue_type)
          /\ state.ticket_slot_priority_asked => Truthy(d.description)

\* the time question is outstanding on an appointment whose service_type and
\* date are filled
C29_Witness ==
    /\ pc = "collect_appointment_details"
    /\ FieldValue(state.appointment_details, "service_type") = "val"
    /\ FieldValue(state.appointment_details, "date") = "val"
    /\ FieldValue(state.appointment_details, "time") = ""
    /\ state.appointment_slot_time_asked

\* Gateway outputs that answer the priority question with an accepted value
AcceptedPriorityOutputs ==
    {out \in PriorityOutputs \ {GatewayError} : Lower(Strip(out)) \in {"low", "medium", "high"}}

\* The Slot Collector, run on st, generates no question for a filled field
NoQuestionForFilled(st) ==
    /\ IsSchema(st.appointment_details) =>
          \A ex \in FieldOutputs, q \in QuestionOutputs :
              LET n == collect_appointment_details_node(st, user_input, ex, q) IN
              \A i \in 1..Len(AppointmentFields) :
                  (st.appointment_details[1][AppointmentFields[i]] \notin {"", NONE}) =>
                      ~n[AskedFlag(AppointmentFields[i])]
    /\ IsSchema(st.ticket_details) =>
          \A ex \in FieldOutputs, q \in QuestionOutputs :
              LET n == collect_ticket_details_node(st, user_input, ex, q) IN
              \A i \in 1..2 :
                  Truthy(st.ticket_details[1][TicketFields[i]]) => ~n[AskedFlag(TicketFields[i])]

\* C30: the Slot Collector generates a field's question only while the field is
\* unanswered.  It asks for no field that is filled, and once the answer to the
\* priority question has been accepted ('medium' included) the collector, when
\* the run comes back to it after a declined confirmation, does not generate
\* the priority question again.
C30_AskOnce ==
    /\ pc \in Collectors => NoQuestionForFilled(state)
    /\ (pc = "collect_ticket_details" /\ state.ticket_slot_priority_asked
        /\ ticket_complete(state.ticket_details) /\ user_input # "") =>
          \A ex \in AcceptedPriorityOutputs, q \in QuestionOutputs, c \in ConfirmationOutputs :
              LET n1 == collect_ticket_details_node(state, user_input, ex, q)
                  summary == generate_summary_node(n1, q)
              IN
              (/\ route_after_detail_collection(n1) = "generate_summary"
               /\ route_after_summary_prompt(summary, user_input, c) = "collect_ticket_details") =>
                  \A ex2 \in FieldOutputs, q2 \in QuestionOutputs :
                      ~collect_ticket_details_node(summary, user_input, ex2, q2)
                          .ticket_slot_priority_asked

\* the first half of C30 alone
C30_NoQuestionForFilled == pc \in Collectors => NoQuestionForFilled(state)

\* C31: the optional details field never blocks an appointment.  When the
\* details question was asked and the reply yields no details (the Gateway
\* answers 'None', nothing, or fails, or the message is empty), details is
\* recorded as resolved (non-null), its asked flag becomes false, no question
\* is produced and the routing goes on to the Confirmation Manager.
C31_DetailsNeverBlock ==
    (/\ ExtractionPending("collect_appointment_details", state.appointment_details,
                          AppointmentFields, 4)
     /\ state.appointment_details[1].details = NONE) =>
        \A ex \in FailedOutputs \cap FieldOutputs, q \in QuestionOutputs :
            LET n == collect_appointment_details_node(state, user_input, ex, q) IN
            /\ n.appointment_details[1].details # NONE
            /\ ~n.appointment_slot_details_asked
            /\ n.current_ai_response = NONE
            /\ route_after_detail_collection(n) = "generate_summary"

\* the details question was answered without details and the run reached the
\* Confirmation Manager
C31_Witness ==
    /\ pc = "generate_summary"
    /\ FieldValue(state.appointment_details, "details") = "N/A"
    /\ ~state.appointment_slot_details_asked
    /\ state.current_ai_response = NONE

\* C32: the priority of a non-null ticket struct is always one of 'low',
\* 'medium', 'high'.  A Slot Collector step changes it only when the priority
\* question is outstanding and the extracted reply is, case-insensitively, one
\* of the three values; any other reply leaves it as it was ('medium').  The
\* ticket tool is never invoked with another priority.
C32_PriorityDomain ==
    /\ IsSchema(state.ticket_details) => state.ticket_details[1].priority \in PriorityValues
    /\ (pc = "collect_ticket_details" /\ IsSchema(state.ticket_details)) =>
          \A ex \in PriorityOutputs \cup FieldOutputs, q \in QuestionOutputs :
              LET n == collect_ticket_details_node(state, user_input, ex, q)
                  old == state.ticket_details[1].priority
                  accepted == /\ state.ticket_slot_priority_asked
                              /\ Truthy(state.ticket_details[1].issue_type)
                              /\ Truthy(state.ticket_details[1].description)
                              /\ user_input # ""
                              /\ ex # GatewayError
                              /\ Lower(Strip(ex)) \in PriorityValues
              IN
              /\ accepted => n.ticket_details[1].priority = Lower(Strip(ex))
              /\ ~accepted => n.ticket_details[1].priority = old
              /\ (state.ticket_slot_priority_asked /\ ~accepted) =>
                    n.ticket_details[1].priority = "medium"
    /\ (pc = "execute_tool" /\ state.user_request_type = "ticket" /\ invokes_tool(state)) =>
          tool_input(state).priority \in PriorityValues

\* the ticket tool is about to be invoked with a priority the user chose
C32_Witness ==
    /\ pc = "execute_tool"
    /\ state.user_request_type = "ticket"
    /\ FieldValue(state.ticket_details, "priority") = "high"

\* The struct of the active intent holds every field the workflow requires
CompleteForIntent(st) ==
    \/ /\ st.user_request_type = "appointment"
       /\ IsSchema(st.appointment_details)
       /\ Truthy(st.appointment_details[1].service_type)
       /\ Truthy(st.appointment_details[1].date)
       /\ Truthy(st.appointment_details[1].time)
       /\ st.appointment_details[1].details # NONE
    \/ /\ st.user_request_type = "ticket"
       /\ IsSchema(st.ticket_details)
       /\ Truthy(st.ticket_details[1].issue_type)
       /\ Truthy(st.ticket_details[1].description)

\* C33: a tool is invoked only for a complete struct of the matching intent:
\* schedule_appointment_tool only with intent 'appointment' and service_type,
\* date, time non-empty and details non-null, create_ticket_tool only with
\* intent 'ticket' and issue_type and description non-empty.  The Confirmation
\* Manager is entered only with such a struct, so its 'details are missing'
\* return is never taken and no 'yes' can follow it.
C33_ToolOnlyOnCompleteStruct ==
    /\ (pc = "execute_tool" /\ invokes_tool(state)) => CompleteForIntent(state)
    /\ pc = "generate_summary" =>
          /\ CompleteForIntent(state)
          /\ \A q \in QuestionOutputs :
                generate_summary_node(state, q).confirmation_summary # NONE

\* the appointment tool is about to be invoked on a complete appointment
C33_Witness ==
    /\ pc = "execute_tool"
    /\ state.user_request_type = "appointment"
    /\ appointment_complete(state.appointment_details)
    /\ state.confirmation_summary = "appointment summary"

RequiredAppointmentFields == {"service_type", "date", "time"}

RequiredTicketFields == {"issue_type", "description"}

\* Every required field that holds a value in st holds the same value in n
FilledValuesKept(st, n) ==
    /\ \A f \in RequiredAppointmentFields :
          Truthy(FieldValue(st.appointment_details, f)) =>
              FieldValue(n.appointment_details, f) = FieldValue(st.appointment_details, f)
    /\ \A f \in RequiredTicketFields :
          Truthy(FieldValue(st.ticket_details, f)) =>
              FieldValue(n.ticket_details, f) = FieldValue(st.ticket_details, f)

\* C34: filled values are stable.  Whatever the Gateway returns, a step of a
\* Slot Collector, of the Confirmation Manager or of General Chat leaves every
\* non-empty required field (service_type, date, time, issue_type,
\* description) as it is; the Intent Classifier changes one only together with
\* the intent; the only other change is the reset of the Tool Dispatcher.  The
\* fallback branch at the end of a collector is never reached.
C34_FilledValuesStable ==
    /\ pc = "collect_appointment_details" =>
          /\ \A ex \in FieldOutputs, q \in QuestionOutputs :
                FilledValuesKept(state, collect_appointment_details_node(state, user_input, ex, q))
          /\ ~appointment_fallback_reached(state)
    /\ pc = "collect_ticket_details" =>
          /\ \A ex \in FieldOutputs \cup PriorityOutputs, q \in QuestionOutputs :
                FilledValuesKept(state, collect_ticket_details_node(state, user_input, ex, q))
          /\ ~ticket_fallback_reached(state)
    /\ pc = "generate_summary" =>
          \A q \in QuestionOutputs : FilledValuesKept(state, generate_summary_node(state, q))
    /\ pc = "general_chat" =>
          \A outcome \in ChatOutcomes : FilledValuesKept(state, general_chat_node(state, outcome))
    /\ pc = "classify_intent" =>
          \A raw \in IntentOutputs \ {GatewayError} :
              LET n == classify_intent_node(state, user_input, raw) IN
              FilledValuesKept(state, n) \/ n.user_request_type # state.user_request_type

\* a service_type given in an earlier turn is still there in the third turn,
\* while the date question is outstanding
C34_Witness ==
    /\ pc = "collect_appointment_details"
    /\ state.interaction_count = 3
    /\ steps = 1
    /\ FieldValue(state.appointment_details, "service_type") = "val"
    /\ FieldValue(state.appointment_details, "date") = ""
    /\ state.appointment_slot_date_asked

\* C35: the confirmation summary never survives into a later turn.  Whatever
\* the state is when the Intent Classifier runs and whatever intent it
\* determines (the preserved one included), confirmation_summary and
\* final_tool_response are null after its step; in particular they are null
\* after the first step of every turn.
C35_SummaryClearedEachTurn ==
    /\ pc = "classify_intent" =>
          \A raw \in IntentOutputs \ {GatewayError} :
              LET n == classify_intent_node(state, user_input, raw) IN
              n.confirmation_summary = NONE /\ n.final_tool_response = NONE
    /\ (pc # "idle" /\ steps = 1) =>
          state.confirmation_summary = NONE /\ state.final_tool_response = NONE

\* a turn begins in the middle of a confirmation: the summary of the previous
\* turn is still in the state and the user's message names no other intent
C35_Witness ==
    /\ pc = "classify_intent"
    /\ steps = 0
    /\ state.confirmation_summary = "appointment summary"
    /\ state.user_request_type = "appointment"
    /\ user_input = "next monday"

\* C36: asked flags belong to a live struct.  In every reachable state, if
\* appointment_details is null all four appointment asked flags are false,
\* and if ticket_details is null all three ticket asked flags are false.
C36_FlagsBelongToLiveStruct ==
    /\ ~IsSchema(state.appointment_details) =>
          \A k \in DOMAIN default_appt_flags : ~state[k]
    /\ ~IsSchema(state.ticket_details) =>
          \A k \in DOMAIN default_ticket_flags : ~state[k]

\* The asked flags of a struct's fields that are true
FlagsSet(st, fields) == {i \in 1..Len(fields) : st[AskedFlag(fields[i])]}

\* C37: at most one question is outstanding.  In every reachable state at most
\* one asked flag of the live struct is true, and the one that is true belongs
\* to the first empty field in declared order (details counts as empty while
\* null) or, in a ticket whose issue_type and description are filled, to
\* priority.
C37_OneQuestionOutstanding ==
    /\ IsSchema(state.appointment_details) =>
          LET d == state.appointment_details[1] IN
          /\ Cardinality(FlagsSet(state, AppointmentFields)) <= 1
          /\ \A i \in FlagsSet(state, AppointmentFields) :
                /\ Empty(d[AppointmentFields[i]])
                /\ \A j \in 1..(i - 1) : Truthy(d[AppointmentFields[j]])
    /\ IsSchema(state.ticket_details) =>
          LET d == state.ticket_details[1] IN
          /\ Cardinality(FlagsSet(state, TicketFields)) <= 1
          /\ \A i \in FlagsSet(state, TicketFields) :
                /\ i < 3 => Empty(d[TicketFields[i]])
                /\ \A j \in 1..(i - 1) : Truthy(d[TicketFields[j]])

\* the details question is the one outstanding after service_type, date and
\* time were asked and answered one after the other
C37_Witness ==
    /\ pc = "collect_appointment_details"
    /\ state.appointment_slot_details_asked
    /\ FieldValue(state.appointment_details, "time") = "val"
    /\ FieldValue(state.appointment_details, "details") = NONE
    /\ state.current_ai_response = "ask details"

====
